---- MODULE Spec2Model ----
(***************************************************************************)
(* TinyVM (src/tinyvm.py): a stack-based interpreter of compiled units.    *)
(* The model follows run_code / run_frame instruction by instruction.      *)
(* One TLA+ action is one opcode handler of run_frame (with the calls it   *)
(* makes), plus the harness call of run_code and run_code's except clause. *)
(***************************************************************************)
EXTENDS Integers, Sequences, FiniteSets, TLC

(***************************************************************************)
(* Bounds of the explored inputs.                                          *)
(***************************************************************************)
\* largest number of declared parameters of a called function
MaxArgs == 3
\* largest number of values pushed before a collection builder
MaxPush == 4
\* length of the exhaustively enumerated instruction sequences
GenLen == 2
\* deepest nesting of run_code activations that is explored
MaxDepth == 4
\* deepest operand stack that is explored (a unit that jumps backwards can
\* push without end)
MaxStack == 6
\* largest number of function objects created in one run (a unit that jumps
\* backwards can create them without end)
MaxFuncs == 6
\* largest number of top-level run_code calls made on one TinyVM
MaxRuns == 2

(***************************************************************************)
(* Runtime values.  Every value is a record of one shape, so that values   *)
(* of different Python types can be compared:                              *)
(*   t  the Python type, n/d a number as the fraction n/d (d > 0),         *)
(*   s  a string payload, xs the elements of a container.                  *)
(* Floats are kept as exact fractions.                                     *)
(***************************************************************************)
Val(t, n, d, s, xs) == [t |-> t, n |-> n, d |-> d, s |-> s, xs |-> xs]

None == Val("NoneType", 0, 1, "", <<>>)
IntV(i) == Val("int", i, 1, "", <<>>)
BoolV(b) == Val("bool", IF b THEN 1 ELSE 0, 1, "", <<>>)
StrV(s) == Val("str", 0, 1, s, <<>>)
TupleV(xs) == Val("tuple", 0, 1, "", xs)
ListV(xs) == Val("list", 0, 1, "", xs)
\* one (key, value) entry of a dict
Item(k, v) == Val("item", 0, 1, "", <<k, v>>)
\* a dict: its entries in insertion order
DictV(items) == Val("dict", 0, 1, "", items)
\* a code object: its name in CodeObjects
CodeV(name) == Val("code", 0, 1, name, <<>>)
\* a function object: index into the heap funcs (identity)
FuncV(h) == Val("function", h, 1, "", <<>>)
\* a host callable of the builtin table
BuiltinV(name) == Val("builtin", 0, 1, name, <<>>)
\* builtins.__dict__ itself, the value run_code stores under "__builtins__"
BuiltinsDict == Val("builtins_dict", 0, 1, "", <<>>)

Abs(i) == IF i < 0 THEN -i ELSE i

RECURSIVE GCD(_, _)
GCD(a, b) == IF b = 0 THEN a ELSE GCD(b, a % b)

\* a float, as the reduced fraction n/d with d > 0
FloatV(n, d) ==
    LET g == GCD(Abs(n), Abs(d))
        sgn == IF d < 0 THEN -1 ELSE 1
    IN  Val("float", sgn * (n \div g), sgn * (d \div g), "", <<>>)

IsNum(v) == v.t \in {"int", "bool", "float"}
IsSeq(v) == v.t \in {"list", "tuple"}

\* Python's ==, as the host values implement it
RECURSIVE PyEq(_, _)
PyEq(a, b) ==
    IF IsNum(a) /\ IsNum(b) THEN a.n * b.d = b.n * a.d
    ELSE IF a.t # b.t THEN FALSE
    ELSE IF IsSeq(a) \/ a.t = "item" THEN
        /\ Len(a.xs) = Len(b.xs)
        /\ \A i \in 1..Len(a.xs) : PyEq(a.xs[i], b.xs[i])
    ELSE IF a.t = "dict" THEN
        /\ Len(a.xs) = Len(b.xs)
        /\ \A i \in 1..Len(a.xs) : \E j \in 1..Len(b.xs) : PyEq(a.xs[i], b.xs[j])
    ELSE a = b

\* whether a value can be a dict key
RECURSIVE Hashable(_)
Hashable(v) ==
    IF v.t \in {"list", "dict", "builtins_dict"} THEN FALSE
    ELSE IF v.t = "tuple" THEN \A i \in 1..Len(v.xs) : Hashable(v.xs[i])
    ELSE TRUE

\* Python truthiness (`not value`, `if value`)
Truthy(v) ==
    IF v.t = "NoneType" THEN FALSE
    ELSE IF IsNum(v) THEN v.n # 0
    ELSE IF v.t = "str" THEN v.s # ""
    ELSE IF v.t \in {"list", "tuple", "dict"} THEN v.xs # <<>>
    ELSE TRUE

(***************************************************************************)
(* dict operations, on the sequence of entries.                            *)
(***************************************************************************)
\* position of key k among the entries, 0 when absent (`k in d`)
DictIndex(items, k) ==
    LET hits == {i \in 1..Len(items) : PyEq(items[i].xs[1], k)}
    IN  IF hits = {} THEN 0 ELSE CHOOSE i \in hits : \A j \in hits : i <= j

DictHas(items, k) == DictIndex(items, k) # 0
DictGet(items, k) == items[DictIndex(items, k)].xs[2]

\* d[k] = v : an existing entry keeps its place and key, a new one goes last
DictSet(items, k, v) ==
    LET i == DictIndex(items, k)
    IN  IF i = 0 THEN Append(items, Item(k, v))
        ELSE [items EXCEPT ![i] = Item(items[i].xs[1], v)]

\* dict(zip(keys, values)) : pairs up to the shorter length, later pairs overwrite
RECURSIVE DictZip(_, _, _)
DictZip(items, ks, vs) ==
    IF ks = <<>> \/ vs = <<>> THEN items
    ELSE DictZip(DictSet(items, Head(ks), Head(vs)), Tail(ks), Tail(vs))

(***************************************************************************)
(* Outcome of a host operation: a value, or the exception it raises.       *)
(***************************************************************************)
Exc(type, msg) == [type |-> type, msg |-> msg]
NoExc == Exc("", "")
Ok(v) == [exc |-> NoExc, v |-> v]
Err(type, msg) == [exc |-> Exc(type, msg), v |-> None]

(***************************************************************************)
(* The host operators the interpreter delegates to: a + b, a < b, calls.    *)
(* Ordering of two str values is not expressible here and is reported as   *)
(* the exception type "Unmodelled"; no modelled unit holds a bare str.     *)
(***************************************************************************)
RECURSIVE Repeat(_, _)
Repeat(xs, k) == IF k <= 0 THEN <<>> ELSE xs \o Repeat(xs, k - 1)

RECURSIVE RepeatStr(_, _)
RepeatStr(s, k) == IF k <= 0 THEN "" ELSE s \o RepeatStr(s, k - 1)

IsFloat(a, b) == a.t = "float" \/ b.t = "float"
NumV(a, b, n, d) == IF IsFloat(a, b) THEN FloatV(n, d) ELSE IntV(n)

\* a + b
HostAdd(a, b) ==
    IF IsNum(a) /\ IsNum(b) THEN Ok(NumV(a, b, a.n * b.d + b.n * a.d, a.d * b.d))
    ELSE IF IsSeq(a) /\ a.t = b.t THEN Ok(Val(a.t, 0, 1, "", a.xs \o b.xs))
    ELSE IF a.t = "str" /\ b.t = "str" THEN Ok(StrV(a.s \o b.s))
    ELSE Err("TypeError", "unsupported operand type(s) for +")

\* a - b
HostSub(a, b) ==
    IF IsNum(a) /\ IsNum(b) THEN Ok(NumV(a, b, a.n * b.d - b.n * a.d, a.d * b.d))
    ELSE Err("TypeError", "unsupported operand type(s) for -")

\* a * b
HostMul(a, b) ==
    IF IsNum(a) /\ IsNum(b) THEN Ok(NumV(a, b, a.n * b.n, a.d * b.d))
    ELSE IF IsSeq(a) /\ b.t \in {"int", "bool"} THEN Ok(Val(a.t, 0, 1, "", Repeat(a.xs, b.n)))
    ELSE IF IsSeq(b) /\ a.t \in {"int", "bool"} THEN Ok(Val(b.t, 0, 1, "", Repeat(b.xs, a.n)))
    ELSE IF a.t = "str" /\ b.t \in {"int", "bool"} THEN Ok(StrV(RepeatStr(a.s, b.n)))
    ELSE IF b.t = "str" /\ a.t \in {"int", "bool"} THEN Ok(StrV(RepeatStr(b.s, a.n)))
    ELSE Err("TypeError", "unsupported operand type(s) for *")

\* a / b
HostTrueDiv(a, b) ==
    IF IsNum(a) /\ IsNum(b) THEN
        IF b.n = 0 THEN Err("ZeroDivisionError", "division by zero")
        ELSE Ok(FloatV(a.n * b.d, a.d * b.n))
    ELSE Err("TypeError", "unsupported operand type(s) for /")

\* the integer relation behind each ordering comparator
IntOrder(op, x, y) ==
    IF op = "<" THEN x < y
    ELSE IF op = "<=" THEN x <= y
    ELSE IF op = ">" THEN x > y
    ELSE x >= y

\* a < b, a <= b, a > b, a >= b
RECURSIVE HostOrder(_, _, _)
HostOrder(op, a, b) ==
    IF IsNum(a) /\ IsNum(b) THEN Ok(BoolV(IntOrder(op, a.n * b.d, b.n * a.d)))
    ELSE IF IsSeq(a) /\ a.t = b.t THEN
        LET m == IF Len(a.xs) < Len(b.xs) THEN Len(a.xs) ELSE Len(b.xs)
            diff == {i \in 1..m : ~PyEq(a.xs[i], b.xs[i])}
        IN  IF diff = {} THEN Ok(BoolV(IntOrder(op, Len(a.xs), Len(b.xs))))
            ELSE LET i == CHOOSE i \in diff : \A j \in diff : i <= j
                 IN  HostOrder(op, a.xs[i], b.xs[i])
    ELSE IF a.t = "str" /\ b.t = "str" THEN Err("Unmodelled", "str ordering")
    ELSE Err("TypeError", "ordering not supported between these types")

\* the process-wide builtin table (builtins.__dict__), cut down to two entries
BuiltinNames == {"len", "abs"}

\* the direct host call of a callable that is no Function Value
HostCall(func, args, kwargs) ==
    IF func.t # "builtin" THEN Err("TypeError", "object is not callable")
    ELSE IF kwargs # <<>> THEN Err("TypeError", "takes no keyword arguments")
    ELSE IF Len(args) # 1 THEN Err("TypeError", "takes exactly one argument")
    ELSE IF func.s = "len" THEN
        IF args[1].t \in {"list", "tuple", "dict"} THEN Ok(IntV(Len(args[1].xs)))
        ELSE IF args[1].t = "str" THEN Ok(IntV(Len(args[1].s)))
        ELSE Err("TypeError", "object has no len()")
    ELSE IF func.s = "abs" THEN
        IF IsNum(args[1])
        THEN Ok(IF args[1].t = "float" THEN FloatV(Abs(args[1].n), args[1].d)
                ELSE IntV(Abs(args[1].n)))
        ELSE Err("TypeError", "bad operand type for abs()")
    ELSE Err("Unmodelled", func.s)

(***************************************************************************)
(* Compiled units and frames.                                              *)
(***************************************************************************)
\* one decoded instruction of dis.get_instructions
Ins(opname, arg, argval) == [opname |-> opname, arg |-> arg, argval |-> argval]

\* a code object, as far as the interpreter reads it
Unit(instructions, co_consts, co_varnames, co_argcount) ==
    [instructions |-> instructions, co_consts |-> co_consts,
     co_varnames |-> co_varnames, co_argcount |-> co_argcount]

\* (mutant) a frame that starts with a value on its stack
Frame_Used(code_obj, globals, locals, closure_cells) ==
    [code_obj |-> code_obj, globals |-> globals, locals |-> locals,
     stack |-> <<[t |-> "NoneType", n |-> 0, d |-> 1, s |-> "", xs |-> <<>>]>>,
     last_instruction |-> 0, block_stack |-> <<>>,
     closure_cells |-> closure_cells, ip |-> 0]

\* Frame.__init__ ; ip is run_frame's local, read from last_instruction on entry
Frame(code_obj, globals, locals, closure_cells) ==
    [code_obj |-> code_obj, globals |-> globals, locals |-> locals,
     stack |-> <<>>, last_instruction |-> 0, block_stack |-> <<>>,
     closure_cells |-> closure_cells, ip |-> 0]

VARIABLES
    frames,      \* TinyVM.frames : the call stack, innermost last
    frame,       \* TinyVM.frame : index into frames of the current Frame, 0 for None
    namespaces,  \* the global-namespace dicts alive in the process, by identity
    funcs,       \* the function objects alive in the process, by identity
    status,      \* "idle", "running", "unwinding", "returned" or "raised"
    calls,       \* number of run_code activations on the native call stack
    exc,         \* the exception in flight or delivered, NoExc when none
    result,      \* what the top-level run_code returned
    log,         \* the lines printed by run_code's except clause
    last,        \* the instruction executed by the latest step, with its frame before
    inv          \* the harness's latest run_code call: its arguments and its number

vars == <<frames, frame, namespaces, funcs, status, calls, exc, result, log, last, inv>>

StartsWith(s, p) == Len(s) >= Len(p) /\ SubSeq(s, 1, Len(p)) = p

\* the opcode names run_frame handles itself (other than the BINARY_ family)
Recognized ==
    {"RESUME", "CACHE", "RETURN_CONST", "KW_NAMES", "MAKE_FUNCTION", "LOAD_CONST",
     "LOAD_FAST", "STORE_FAST", "LOAD_GLOBAL", "STORE_GLOBAL", "LOAD_DEREF",
     "STORE_DEREF", "COMPARE_OP", "POP_JUMP_IF_FALSE", "POP_JUMP_IF_TRUE",
     "JUMP_FORWARD", "FOR_ITER", "BUILD_LIST", "BUILD_TUPLE", "BUILD_MAP",
     "CALL_FUNCTION", "CALL_FUNCTION_KW", "RETURN_VALUE"}

Comparators == {"==", "!=", "<", "<=", ">", ">="}

\* the running frame, and the instruction the loop head fetches
Top == Len(frames)
Cur == frames[Top]
Running == status = "running" /\ Len(Cur.stack) <= MaxStack
HasInstr == Cur.ip < Len(Cur.code_obj.instructions)
Instr == Cur.code_obj.instructions[Cur.ip + 1]
At(opname) == Running /\ HasInstr /\ Instr.opname = opname

\* a record of the step just taken
Step(instr, f) == [instr |-> instr, frame |-> f, at |-> Top]
NoStep ==
    [instr |-> Ins("", 0, ""), frame |-> Frame(Unit(<<>>, <<>>, <<>>, 0), 0, <<>>, <<>>),
     at |-> 0]

\* the values a run of n pops yields, in pop order (top of stack first)
Popped(stack, n) == [i \in 1..n |-> stack[Len(stack) - i + 1]]
\* the stack left by n pops
Drop(stack, n) == SubSeq(stack, 1, Len(stack) - n)
\* seq[::-1]
Reverse(seq) == [i \in 1..Len(seq) |-> seq[Len(seq) - i + 1]]

\* ip += 1 ; frame.last_instruction = ip
Advance(f) == [f EXCEPT !.ip = f.ip + 1, !.last_instruction = f.ip + 1]
\* ip += 1 ; continue
Skip(f) == [f EXCEPT !.ip = f.ip + 1]

\* (mutant) the value is pushed twice
Push_Twice(f, v) == [f EXCEPT !.stack = f.stack \o <<v, v>>]

\* frame.stack.append(v)
Push(f, v) == [f EXCEPT !.stack = Append(f.stack, v)]

IndexError == Exc("IndexError", "pop from empty list")

\* the handler of the current instruction ends normally, leaving frame f
Goes(f) ==
    /\ frames' = [frames EXCEPT ![Top] = f]
    /\ last' = Step(Instr, Cur)
    /\ UNCHANGED <<frame, namespaces, funcs, status, calls, exc, result, log, inv>>

\* the stack of frame f after m pops, of which the first that finds it empty raises
Underflow(f) == [f EXCEPT !.stack = <<>>]

\* the handler raises e, leaving frame f; run_frame is left through run_code's try
Raises(f, e) ==
    /\ frames' = [frames EXCEPT ![Top] = f]
    /\ status' = "unwinding"
    /\ exc' = e
    /\ last' = Step(Instr, Cur)
    /\ UNCHANGED <<frame, namespaces, funcs, calls, result, log, inv>>

\* (mutant) no frame is current after a frame is popped
CurrentAfterPop_None(fs) == 0

\* self.frames.pop() ; self.frame = self.frames[-1] if self.frames else None
PopFrame(fs) == SubSeq(fs, 1, Len(fs) - 1)
CurrentAfterPop(fs) == IF fs # <<>> THEN Len(fs) ELSE 0

\* run_frame returns v: run_code pops the frame and returns v to its caller, which
\* is the harness or the call handler of the frame below (it pushes v and advances)
Returns(instr, v) ==
    LET fs == PopFrame(frames)
    IN  /\ IF calls > 1
           THEN /\ frames' = [fs EXCEPT ![Len(fs)] = Advance(Push(fs[Len(fs)], v))]
                /\ UNCHANGED <<status, result>>
           ELSE /\ frames' = fs
                /\ status' = "returned"
                /\ result' = v
        /\ frame' = CurrentAfterPop(fs)
        /\ calls' = calls - 1
        /\ last' = Step(instr, Cur)
        /\ UNCHANGED <<namespaces, funcs, exc, log, inv>>

(***************************************************************************)
(* The code objects of the callees that the explored runs call.  A         *)
(* function object refers to its code by name in this table.               *)
(***************************************************************************)
ParamNames == <<"x", "y", "z", "w", "v", "u">>

\* def inner(x, y=1): return x * y
InnerUnit ==
    Unit(<<Ins("LOAD_FAST", 0, "x"), Ins("LOAD_FAST", 1, "y"),
           Ins("BINARY_MULTIPLY", 0, ""), Ins("RETURN_VALUE", 0, "")>>,
         <<None>>, <<"x", "y">>, 2)

\* a body that reaches an unimplemented opcode
FailUnit == Unit(<<Ins("FOR_ITER", 0, "")>>, <<None>>, <<>>, 0)

\* def mid(): return g()
MidUnit ==
    Unit(<<Ins("LOAD_GLOBAL", 0, "g"), Ins("CALL_FUNCTION", 0, ""),
           Ins("RETURN_VALUE", 0, "")>>,
         <<None>>, <<>>, 0)

\* a body that returns a constant
LeafUnit == Unit(<<Ins("RETURN_CONST", 1, "")>>, <<None, IntV(7)>>, <<>>, 0)

\* def scratch(x, y): t = 5; return y    (leaving a 6 on its stack)
ScratchUnit ==
    Unit(<<Ins("LOAD_CONST", 1, ""), Ins("STORE_FAST", 2, "t"), Ins("LOAD_CONST", 2, ""),
           Ins("LOAD_FAST", 1, "y"), Ins("RETURN_VALUE", 0, "")>>,
         <<None, IntV(5), IntV(6)>>, <<"x", "y", "t">>, 2)

\* def set(): global shared; shared = 5
SetUnit ==
    Unit(<<Ins("LOAD_CONST", 1, ""), Ins("STORE_GLOBAL", 0, "shared"),
           Ins("RETURN_CONST", 0, "")>>,
         <<None, IntV(5)>>, <<>>, 0)

\* def get(): return shared
GetUnit ==
    Unit(<<Ins("LOAD_GLOBAL", 0, "shared"), Ins("RETURN_VALUE", 0, "")>>,
         <<None>>, <<>>, 0)

\* def f(p1, ..., pA): return (p1, ..., pA)
ParamUnit(A) ==
    Unit([i \in 1..A |-> Ins("LOAD_FAST", i - 1, ParamNames[i])]
            \o <<Ins("BUILD_TUPLE", A, ""), Ins("RETURN_VALUE", 0, "")>>,
         <<None>>, SubSeq(ParamNames, 1, A), A)

\* the names of the bodies ParamUnit(0), ParamUnit(1), ...
ParamCode == <<"f0", "f1", "f2", "f3", "f4", "f5">>

CodeNames == {"inner", "fail", "mid", "leaf", "scratch", "set", "get"} \cup {ParamCode[i] : i \in 1..(MaxArgs + 1)}

CodeObjects ==
    [name \in CodeNames |->
        IF name = "inner" THEN InnerUnit
        ELSE IF name = "fail" THEN FailUnit
        ELSE IF name = "mid" THEN MidUnit
        ELSE IF name = "leaf" THEN LeafUnit
        ELSE IF name = "scratch" THEN ScratchUnit
        ELSE IF name = "set" THEN SetUnit
        ELSE IF name = "get" THEN GetUnit
        ELSE ParamUnit((CHOOSE i \in 1..(MaxArgs + 1) : ParamCode[i] = name) - 1)]

\* a function object: __code__ (name in CodeObjects), __globals__ (position
\* in namespaces) and __defaults__
Function(code, globals, defaults) ==
    [code |-> code, globals |-> globals, defaults |-> defaults]

(***************************************************************************)
(* run_frame, lines 66-114: skipped opcodes, function construction and     *)
(* the load / store opcodes.                                               *)
(***************************************************************************)
\* RESUME, CACHE : no effect
SkipOp ==
    /\ Running /\ HasInstr /\ Instr.opname \in {"RESUME", "CACHE"}
    /\ Goes(Skip(Cur))

\* KW_NAMES : no effect
KwNames ==
    /\ At("KW_NAMES")
    /\ Goes(Skip(Cur))

\* co_consts[arg] and co_varnames[arg]
InRange(seq, arg) == 0 <= arg /\ arg < Len(seq)
TupleIndexError == Exc("IndexError", "tuple index out of range")

\* RETURN_CONST : the constant, whatever the stack holds
ReturnConst ==
    /\ At("RETURN_CONST")
    /\ IF InRange(Cur.code_obj.co_consts, Instr.arg)
       THEN Returns(Instr, Cur.code_obj.co_consts[Instr.arg + 1])
       ELSE Raises(Cur, TupleIndexError)

\* (mutant) the closure cells are left on the stack
MadeFrom_KeepsCells(stack) ==
    LET n == Len(stack)
    IN  [code_obj |-> stack[n],
         defaults |-> IF n >= 2 THEN stack[n - 1] ELSE TupleV(<<>>),
         closure_cells |-> DictV(<<>>),
         rest |-> Drop(stack, IF n >= 2 THEN 2 ELSE n)]

\* what MAKE_FUNCTION pops: the code object, then defaults and closure cells
\* while the stack is not empty
MadeFrom(stack) ==
    LET n == Len(stack)
    IN  [code_obj |-> stack[n],
         defaults |-> IF n >= 2 THEN stack[n - 1] ELSE TupleV(<<>>),
         closure_cells |-> IF n >= 3 THEN stack[n - 2] ELSE DictV(<<>>),
         rest |-> Drop(stack, IF n >= 3 THEN 3 ELSE n)]

\* MAKE_FUNCTION : types.FunctionType(code_obj, frame.globals, argdefs=defaults,
\* closure=None), pushed; the popped closure cells are dropped
MakeFunction ==
    /\ At("MAKE_FUNCTION")
    /\ Len(funcs) < MaxFuncs
    /\ IF Cur.stack = <<>> THEN Raises(Cur, IndexError)
       ELSE LET m == MadeFrom(Cur.stack)
                f == [Cur EXCEPT !.stack = m.rest]
            IN  IF m.code_obj.t # "code"
                THEN Raises(f, Exc("TypeError", "function() argument 'code' must be code"))
                ELSE IF m.defaults.t \notin {"tuple", "NoneType"}
                THEN Raises(f, Exc("TypeError", "arg 4 (defaults) must be None or tuple"))
                ELSE /\ funcs' = Append(funcs, Function(m.code_obj.s, Cur.globals,
                                                        m.defaults.xs))
                     /\ frames' = [frames EXCEPT
                                      ![Top] = Skip(Push(f, FuncV(Len(funcs) + 1)))]
                     /\ last' = Step(Instr, Cur)
                     /\ UNCHANGED <<frame, namespaces, status, calls, exc, result, log, inv>>

\* LOAD_CONST
LoadConst ==
    /\ At("LOAD_CONST")
    /\ IF InRange(Cur.code_obj.co_consts, Instr.arg)
       THEN Goes(Advance(Push(Cur, Cur.code_obj.co_consts[Instr.arg + 1])))
       ELSE Raises(Cur, TupleIndexError)

NameError(name) == Exc("NameError", name)

\* LOAD_FAST : the local of that name, or NameError
LoadFast ==
    /\ At("LOAD_FAST")
    /\ IF ~InRange(Cur.code_obj.co_varnames, Instr.arg) THEN Raises(Cur, TupleIndexError)
       ELSE LET varname == Cur.code_obj.co_varnames[Instr.arg + 1]
            IN  IF DictHas(Cur.locals, StrV(varname))
                THEN Goes(Advance(Push(Cur, DictGet(Cur.locals, StrV(varname)))))
                ELSE Raises(Cur, NameError(varname))

\* STORE_FAST
StoreFast ==
    /\ At("STORE_FAST")
    /\ IF ~InRange(Cur.code_obj.co_varnames, Instr.arg) THEN Raises(Cur, TupleIndexError)
       ELSE IF Cur.stack = <<>> THEN Raises(Cur, IndexError)
       ELSE LET varname == Cur.code_obj.co_varnames[Instr.arg + 1]
            IN  Goes(Advance([Cur EXCEPT
                    !.stack = Drop(Cur.stack, 1),
                    !.locals = DictSet(Cur.locals, StrV(varname), Cur.stack[Len(Cur.stack)])]))

\* (mutant) the builtin table consulted before the frame's globals
GlobalLookup_BuiltinsFirst(globals, name) ==
    IF name \in BuiltinNames THEN Ok(BuiltinV(name))
    ELSE IF DictHas(globals, StrV(name)) THEN Ok(DictGet(globals, StrV(name)))
    ELSE Err("NameError", name)

\* the lookup of LOAD_GLOBAL: the frame's globals, then the builtin table
GlobalLookup(globals, name) ==
    IF DictHas(globals, StrV(name)) THEN Ok(DictGet(globals, StrV(name)))
    ELSE IF name \in BuiltinNames THEN Ok(BuiltinV(name))
    ELSE Err("NameError", name)

\* LOAD_GLOBAL
LoadGlobal ==
    /\ At("LOAD_GLOBAL")
    /\ LET r == GlobalLookup(namespaces[Cur.globals], Instr.argval)
       IN  IF r.exc = NoExc THEN Goes(Advance(Push(Cur, r.v))) ELSE Raises(Cur, r.exc)

\* STORE_GLOBAL : writes the namespace the frame shares
StoreGlobal ==
    /\ At("STORE_GLOBAL")
    /\ IF Cur.stack = <<>> THEN Raises(Cur, IndexError)
       ELSE /\ namespaces' = [namespaces EXCEPT ![Cur.globals] =
                   DictSet(namespaces[Cur.globals], StrV(Instr.argval),
                           Cur.stack[Len(Cur.stack)])]
            /\ frames' = [frames EXCEPT
                             ![Top] = Advance([Cur EXCEPT !.stack = Drop(Cur.stack, 1)])]
            /\ last' = Step(Instr, Cur)
            /\ UNCHANGED <<frame, funcs, status, calls, exc, result, log, inv>>

\* the lookup of LOAD_DEREF: the frame's closure cells only
DerefLookup(closure_cells, cellname) ==
    IF DictHas(closure_cells, StrV(cellname)) THEN Ok(DictGet(closure_cells, StrV(cellname)))
    ELSE Err("NameError", cellname)

\* LOAD_DEREF
LoadDeref ==
    /\ At("LOAD_DEREF")
    /\ LET r == DerefLookup(Cur.closure_cells, Instr.argval)
       IN  IF r.exc = NoExc THEN Goes(Advance(Push(Cur, r.v))) ELSE Raises(Cur, r.exc)

\* STORE_DEREF
StoreDeref ==
    /\ At("STORE_DEREF")
    /\ IF Cur.stack = <<>> THEN Raises(Cur, IndexError)
       ELSE Goes(Advance([Cur EXCEPT
                !.stack = Drop(Cur.stack, 1),
                !.closure_cells = DictSet(Cur.closure_cells, StrV(Instr.argval),
                                          Cur.stack[Len(Cur.stack)])]))

(***************************************************************************)
(* run_frame, lines 117-161: arithmetic, comparison, jumps, builders.      *)
(***************************************************************************)
NotImplementedError(what) == Exc("NotImplementedError", what)

\* (mutant) the operands taken in pop order: b op a
BinaryResult_Swapped(opname, a, b) ==
    IF opname = "BINARY_ADD" THEN HostAdd(b, a)
    ELSE IF opname = "BINARY_SUBTRACT" THEN HostSub(b, a)
    ELSE IF opname = "BINARY_MULTIPLY" THEN HostMul(b, a)
    ELSE IF opname = "BINARY_TRUE_DIVIDE" THEN HostTrueDiv(b, a)
    ELSE Err("NotImplementedError", opname)

\* the operator each BINARY_ opcode applies to (a, b)
BinaryResult(opname, a, b) ==
    IF opname = "BINARY_ADD" THEN HostAdd(a, b)
    ELSE IF opname = "BINARY_SUBTRACT" THEN HostSub(a, b)
    ELSE IF opname = "BINARY_MULTIPLY" THEN HostMul(a, b)
    ELSE IF opname = "BINARY_TRUE_DIVIDE" THEN HostTrueDiv(a, b)
    ELSE Err("NotImplementedError", opname)

\* BINARY_* : b is popped first, then a
Binary ==
    /\ Running /\ HasInstr /\ StartsWith(Instr.opname, "BINARY_")
    /\ IF Len(Cur.stack) < 2 THEN Raises(Underflow(Cur), IndexError)
       ELSE LET b == Cur.stack[Len(Cur.stack)]
                a == Cur.stack[Len(Cur.stack) - 1]
                f == [Cur EXCEPT !.stack = Drop(Cur.stack, 2)]
                r == BinaryResult(Instr.opname, a, b)
            IN  IF r.exc = NoExc THEN Goes(Advance(Push(f, r.v))) ELSE Raises(f, r.exc)

\* the comparison COMPARE_OP applies to (a, b)
CompareResult(op, a, b) ==
    IF op = "==" THEN Ok(BoolV(PyEq(a, b)))
    ELSE IF op = "!=" THEN Ok(BoolV(~PyEq(a, b)))
    ELSE IF op \in {"<", "<=", ">", ">="} THEN HostOrder(op, a, b)
    ELSE Err("NotImplementedError", op)

\* COMPARE_OP : b is popped first, then a
CompareOp ==
    /\ At("COMPARE_OP")
    /\ IF Len(Cur.stack) < 2 THEN Raises(Underflow(Cur), IndexError)
       ELSE LET b == Cur.stack[Len(Cur.stack)]
                a == Cur.stack[Len(Cur.stack) - 1]
                f == [Cur EXCEPT !.stack = Drop(Cur.stack, 2)]
                r == CompareResult(Instr.argval, a, b)
            IN  IF r.exc = NoExc THEN Goes(Advance(Push(f, r.v))) ELSE Raises(f, r.exc)

\* whether the conditional jump is taken on the popped value
JumpTaken(opname, value) ==
    \/ opname = "POP_JUMP_IF_FALSE" /\ ~Truthy(value)
    \/ opname = "POP_JUMP_IF_TRUE" /\ Truthy(value)

\* (mutant) the target stored as it is, so that the advance steps past it
JumpIp_Unadjusted(arg) == arg

\* what a taken jump stores in ip, before the advance that every handler ends with
JumpIp(arg) == arg - 1

\* POP_JUMP_IF_FALSE, POP_JUMP_IF_TRUE
PopJump ==
    /\ Running /\ HasInstr /\ Instr.opname \in {"POP_JUMP_IF_FALSE", "POP_JUMP_IF_TRUE"}
    /\ IF Cur.stack = <<>> THEN Raises(Cur, IndexError)
       ELSE LET value == Cur.stack[Len(Cur.stack)]
                f == [Cur EXCEPT !.stack = Drop(Cur.stack, 1)]
            IN  IF JumpTaken(Instr.opname, value)
                THEN Goes(Advance([f EXCEPT !.ip = JumpIp(Instr.arg)]))
                ELSE Goes(Advance(f))

\* (mutant) the jump steps back onto itself
ForwardIp_Stay(ip, arg) == ip - 1

\* ip += instr.arg
ForwardIp(ip, arg) == ip + arg

\* JUMP_FORWARD : ip += arg, then the advance
JumpForward ==
    /\ At("JUMP_FORWARD")
    /\ Goes(Advance([Cur EXCEPT !.ip = ForwardIp(Cur.ip, Instr.arg)]))

\* FOR_ITER : not implemented
ForIter ==
    /\ At("FOR_ITER")
    /\ Raises(Cur, NotImplementedError("FOR_ITER"))

\* (mutant) the popped values kept in pop order
BuildSeq_Unreversed(stack, n) == Popped(stack, n)

\* [frame.stack.pop() for _ in range(n)][::-1]
BuildSeq(stack, n) == Reverse(Popped(stack, n))

\* BUILD_LIST
BuildList ==
    /\ At("BUILD_LIST")
    /\ IF Len(Cur.stack) < Instr.arg THEN Raises(Underflow(Cur), IndexError)
       ELSE Goes(Advance(Push([Cur EXCEPT !.stack = Drop(Cur.stack, Instr.arg)],
                              ListV(BuildSeq(Cur.stack, Instr.arg)))))

\* BUILD_TUPLE
BuildTuple ==
    /\ At("BUILD_TUPLE")
    /\ IF Len(Cur.stack) < Instr.arg THEN Raises(Underflow(Cur), IndexError)
       ELSE Goes(Advance(Push([Cur EXCEPT !.stack = Drop(Cur.stack, Instr.arg)],
                              TupleV(BuildSeq(Cur.stack, Instr.arg)))))

\* the loop of BUILD_MAP: n times, pop the value, pop the key, d[key] = value
RECURSIVE MapPairs(_, _, _)
MapPairs(stack, n, d) ==
    IF n <= 0 THEN [exc |-> NoExc, stack |-> stack, d |-> d]
    ELSE IF Len(stack) < 2 THEN [exc |-> IndexError, stack |-> <<>>, d |-> d]
    ELSE LET value == stack[Len(stack)]
             key == stack[Len(stack) - 1]
         IN  IF ~Hashable(key)
             THEN [exc |-> Exc("TypeError", "unhashable type"),
                   stack |-> Drop(stack, 2), d |-> d]
             ELSE MapPairs(Drop(stack, 2), n - 1, DictSet(d, key, value))

\* BUILD_MAP
BuildMap ==
    /\ At("BUILD_MAP")
    /\ LET r == MapPairs(Cur.stack, Instr.arg, <<>>)
           f == [Cur EXCEPT !.stack = r.stack]
       IN  IF r.exc = NoExc THEN Goes(Advance(Push(f, DictV(r.d)))) ELSE Raises(f, r.exc)

(***************************************************************************)
(* run_code, lines 36-54, and the call protocol, lines 164-210.            *)
(***************************************************************************)
\* if "__builtins__" not in globals: globals["__builtins__"] = builtins.__dict__
WithBuiltins(globals) ==
    IF DictHas(globals, StrV("__builtins__")) THEN globals
    ELSE DictSet(globals, StrV("__builtins__"), BuiltinsDict)

\* run_code up to the call of run_frame, entered with the call stack fs: a new
\* Frame is appended and made current
Enter(fs, nss, code_obj, g, locals, closure_cells) ==
    /\ namespaces' = [nss EXCEPT ![g] = WithBuiltins(nss[g])]
    /\ frames' = Append(fs, Frame(code_obj, g, locals, closure_cells))
    /\ frame' = Len(fs) + 1
    /\ calls' = calls + 1

Min(a, b) == IF a < b THEN a ELSE b

\* code.co_varnames[:code.co_argcount]
ArgNames(code) == SubSeq(code.co_varnames, 1, Min(code.co_argcount, Len(code.co_varnames)))

\* for i, val in enumerate(args): local_ns[arg_names[i]] = val
BindPositional(local_ns, arg_names, args) ==
    IF Len(args) > Len(arg_names) THEN [exc |-> TupleIndexError, ns |-> local_ns]
    ELSE [exc |-> NoExc,
          ns |-> DictZip(local_ns, [i \in 1..Len(args) |-> StrV(arg_names[i])], args)]

\* (mutant) defaults aligned with the first parameters instead of the last
DefaultIndex_Left(i, argcount, ndefaults) == i

\* default_index = i - (code.co_argcount - len(defaults))
DefaultIndex(i, argcount, ndefaults) == i - (argcount - ndefaults)

\* for i in range(start, argcount): bind parameter i to its default when the
\* default index is in range
RECURSIVE FillDefaults(_, _, _, _, _)
FillDefaults(local_ns, arg_names, argcount, defaults, i) ==
    IF i >= argcount THEN local_ns
    ELSE LET default_index == DefaultIndex(i, argcount, Len(defaults))
         IN  FillDefaults(
                IF 0 <= default_index /\ default_index < Len(defaults)
                THEN DictSet(local_ns, StrV(arg_names[i + 1]), defaults[default_index + 1])
                ELSE local_ns,
                arg_names, argcount, defaults, i + 1)

\* where CALL_FUNCTION starts filling defaults: range(len(args), ...)
PositionalFillStart(local_ns, args) == Len(args)

\* the locals CALL_FUNCTION builds for a Function Value
PositionalLocals(code, defaults, args) ==
    LET b == BindPositional(<<>>, ArgNames(code), args)
    IN  IF b.exc # NoExc THEN b
        ELSE [exc |-> NoExc,
              ns |-> FillDefaults(b.ns, ArgNames(code), code.co_argcount, defaults,
                                  PositionalFillStart(b.ns, args))]

\* (mutant) the callee runs on the globals of the calling frame
CalleeGlobals_Caller(fn, f) == f.globals

\* func.__globals__ : the globals the callee runs on, called from frame f
CalleeGlobals(fn, f) == fn.globals

\* the call handler, after it popped its operands leaving frame f, calls the
\* Function Value func on the locals b, or raises what building them raised
CallsFunction(f, func, b) ==
    IF b.exc # NoExc THEN Raises(f, b.exc)
    ELSE /\ calls < MaxDepth
         /\ Enter([frames EXCEPT ![Top] = f], namespaces,
                  CodeObjects[funcs[func.n].code], CalleeGlobals(funcs[func.n], f),
                  b.ns, <<>>)
         /\ last' = Step(Instr, Cur)
         /\ UNCHANGED <<funcs, status, exc, result, log, inv>>

\* the call handler calls a host callable, and pushes what it returns
CallsHost(f, r) ==
    IF r.exc = NoExc THEN Goes(Advance(Push(f, r.v))) ELSE Raises(f, r.exc)

\* CALL_FUNCTION : arg_count arguments, then the callable
CallFunction ==
    /\ At("CALL_FUNCTION")
    /\ IF Len(Cur.stack) < Instr.arg + 1 THEN Raises(Underflow(Cur), IndexError)
       ELSE LET args == BuildSeq(Cur.stack, Instr.arg)
                func == Cur.stack[Len(Cur.stack) - Instr.arg]
                f == [Cur EXCEPT !.stack = Drop(Cur.stack, Instr.arg + 1)]
            IN  IF func.t = "function"
                THEN CallsFunction(f, func,
                        PositionalLocals(CodeObjects[funcs[func.n].code],
                                         funcs[func.n].defaults, args))
                ELSE CallsHost(f, HostCall(func, args, <<>>))

\* whether len(kw_names) and zip(kw_names, ...) are defined
HasLen(v) == v.t \in {"tuple", "list", "dict", "str"}

\* the elements iterating kw_names yields
Elements(v) ==
    IF v.t = "dict" THEN [i \in 1..Len(v.xs) |-> v.xs[i].xs[1]]
    ELSE IF v.t = "str" THEN [i \in 1..Len(v.s) |-> StrV(SubSeq(v.s, i, i))]
    ELSE v.xs

\* args_and_kw[:-kw_count] if kw_count else args_and_kw
PositionalPart(args_and_kw, kw_count) ==
    IF kw_count = 0 THEN args_and_kw
    ELSE SubSeq(args_and_kw, 1, Len(args_and_kw) - kw_count)

\* args_and_kw[-kw_count:] if kw_count else []
KeywordPart(args_and_kw, kw_count) ==
    IF kw_count = 0 THEN <<>>
    ELSE SubSeq(args_and_kw, Len(args_and_kw) - Min(kw_count, Len(args_and_kw)) + 1,
                Len(args_and_kw))

\* dict(zip(kw_names, kw_values))
Kwargs(kw_names, kw_values) ==
    LET ks == Elements(kw_names)
        m == Min(Len(ks), Len(kw_values))
    IN  IF \E i \in 1..m : ~Hashable(ks[i])
        THEN [exc |-> Exc("TypeError", "unhashable type"), d |-> <<>>]
        ELSE [exc |-> NoExc, d |-> DictZip(<<>>, ks, kw_values)]

\* for name, val in kwargs.items(): local_ns[name] = val
RECURSIVE BindKeywords(_, _)
BindKeywords(local_ns, kwargs) ==
    IF kwargs = <<>> THEN local_ns
    ELSE BindKeywords(DictSet(local_ns, Head(kwargs).xs[1], Head(kwargs).xs[2]), Tail(kwargs))

\* (mutant) defaults filled from the positional count on, over the keywords
KeywordFillStart_Positional(local_ns, positional_args) == Len(positional_args)

\* where CALL_FUNCTION_KW starts filling defaults: filled_count = len(local_ns)
KeywordFillStart(local_ns, positional_args) == Len(local_ns)

\* the locals CALL_FUNCTION_KW builds for a Function Value
KeywordLocals(code, defaults, positional_args, kwargs) ==
    LET b == BindPositional(<<>>, ArgNames(code), positional_args)
    IN  IF b.exc # NoExc THEN b
        ELSE LET local_ns == BindKeywords(b.ns, kwargs)
             IN  [exc |-> NoExc,
                  ns |-> FillDefaults(local_ns, ArgNames(code), code.co_argcount, defaults,
                                      KeywordFillStart(local_ns, positional_args))]

\* CALL_FUNCTION_KW : the keyword names, total_args values, then the callable
CallFunctionKw ==
    /\ At("CALL_FUNCTION_KW")
    /\ IF Len(Cur.stack) < Instr.arg + 2 THEN Raises(Underflow(Cur), IndexError)
       ELSE LET kw_names == Cur.stack[Len(Cur.stack)]
                args_and_kw == BuildSeq(Drop(Cur.stack, 1), Instr.arg)
                func == Cur.stack[Len(Cur.stack) - Instr.arg - 1]
                f == [Cur EXCEPT !.stack = Drop(Cur.stack, Instr.arg + 2)]
            IN  IF ~HasLen(kw_names)
                THEN Raises(f, Exc("TypeError", "object has no len()"))
                ELSE LET kw_count == Len(Elements(kw_names))
                         positional_args == PositionalPart(args_and_kw, kw_count)
                         kw_values == KeywordPart(args_and_kw, kw_count)
                         kwargs == Kwargs(kw_names, kw_values)
                     IN  IF kwargs.exc # NoExc THEN Raises(f, kwargs.exc)
                         ELSE IF func.t = "function"
                         THEN CallsFunction(f, func,
                                 KeywordLocals(CodeObjects[funcs[func.n].code],
                                               funcs[func.n].defaults,
                                               positional_args, kwargs.d))
                         ELSE CallsHost(f, HostCall(func, positional_args, kwargs.d))

(***************************************************************************)
(* run_frame, lines 60 and 213-217: return, unknown opcode, end of code.   *)
(***************************************************************************)
\* (mutant) the stack is not read
ReturnedValue_None(stack) == None

\* frame.stack.pop() if frame.stack else None
ReturnedValue(stack) == IF stack # <<>> THEN stack[Len(stack)] ELSE None

\* RETURN_VALUE : the top of the stack, or None when it is empty
ReturnValue ==
    /\ At("RETURN_VALUE")
    /\ Returns(Instr, ReturnedValue(Cur.stack))

\* any other opcode
Unsupported ==
    /\ Running /\ HasInstr
    /\ Instr.opname \notin Recognized /\ ~StartsWith(Instr.opname, "BINARY_")
    /\ Raises(Cur, NotImplementedError(Instr.opname))

\* the while loop ends: run_frame returns None
EndOfCode ==
    /\ Running /\ ~HasInstr
    /\ Returns(Ins("<end>", 0, ""), None)

\* (mutant) a nested activation swallows the exception and goes on
Reraise_Swallowed(c) == IF c = 1 THEN "raised" ELSE "running"

\* the `raise` of the except clause: the exception reaches the caller of this
\* activation, which is the harness for the outermost one
Reraise(c) == IF c = 1 THEN "raised" ELSE "unwinding"

\* run_code's except clause, in the innermost activation still on the native
\* stack: print the message, re-raise to the caller
Handler ==
    /\ status = "unwinding"
    /\ log' = Append(log, exc)
    /\ calls' = calls - 1
    /\ status' = Reraise(calls)
    /\ UNCHANGED <<frames, frame, namespaces, funcs, exc, result, last, inv>>

(***************************************************************************)
(* The harness: the calls of run_code that are explored.  An invocation     *)
(* gives the arguments of run_code and the objects that exist when it is   *)
(* made: the namespaces (globals is a position in them, 0 for None) and    *)
(* the function objects the namespaces hold.                               *)
(***************************************************************************)
Invocation(code_obj, globals, locals, closure_cells, nss, fns) ==
    [code_obj |-> code_obj, globals |-> globals, locals |-> locals,
     closure_cells |-> closure_cells, namespaces |-> nss, funcs |-> fns, run |-> 1]

RECURSIVE SetToSeq(_)
SetToSeq(S) ==
    IF S = {} THEN <<>>
    ELSE LET m == CHOOSE x \in S : \A y \in S : x <= y
         IN  <<m>> \o SetToSeq(S \ {m})

\* sequences over S of length at most n
SeqsUpTo(S, n) == UNION {[1..m -> S] : m \in 0..n}

\* def test_func(a, b): return a + inner(b, y=2)
OuterUnit ==
    Unit(<<Ins("LOAD_FAST", 0, "a"), Ins("LOAD_GLOBAL", 0, "inner"),
           Ins("LOAD_FAST", 1, "b"), Ins("LOAD_CONST", 1, ""), Ins("LOAD_CONST", 2, ""),
           Ins("CALL_FUNCTION_KW", 2, ""), Ins("BINARY_ADD", 0, ""),
           Ins("RETURN_VALUE", 0, "")>>,
         <<None, IntV(2), TupleV(<<StrV("y")>>)>>, <<"a", "b">>, 2)

\* vm.run_code(test_func.__code__, globals=globals(), locals={'a': 3, 'b': 4})
Example ==
    Invocation(OuterUnit, 1,
               <<Item(StrV("a"), IntV(3)), Item(StrV("b"), IntV(4))>>, <<>>,
               <<  <<Item(StrV("inner"), FuncV(1))>>  >>,
               <<Function("inner", 1, <<IntV(1)>>)>>)

\* the values the call families pass and declare: positional argument i,
\* the keyword value for parameter i, the default at position i
PosArg(i) == IntV(10 + i)
KwArg(i) == IntV(20 + i)
DefaultArg(i) == IntV(30 + i)

\* globals of the call families: f is a function of A parameters and D defaults
CallGlobals == <<  <<Item(StrV("f"), FuncV(1))>>  >>
CallFuncs(A, D) == <<Function(ParamCode[A + 1], 1, [i \in 1..D |-> DefaultArg(i)])>>

\* return f(a1, ..., ak)
PosCallUnit(k) ==
    Unit(<<Ins("LOAD_GLOBAL", 0, "f")>>
            \o [i \in 1..k |-> Ins("LOAD_CONST", i, "")]
            \o <<Ins("CALL_FUNCTION", k, ""), Ins("RETURN_VALUE", 0, "")>>,
         <<None>> \o [i \in 1..k |-> PosArg(i)], <<>>, 0)

PosCalls ==
    {Invocation(PosCallUnit(k), 1, <<>>, <<>>, CallGlobals, CallFuncs(A, D)) :
        <<A, D, k>> \in {t \in (0..MaxArgs) \X (0..MaxArgs) \X (0..(MaxArgs + 1)) :
                            t[2] <= t[1] /\ t[3] <= t[1] + 1}}

\* return f(a1, ..., ak, p=v, ...) for the parameters with positions in kws
KwCallUnit(k, kws) ==
    Unit(<<Ins("LOAD_GLOBAL", 0, "f")>>
            \o [i \in 1..(k + Len(kws)) |-> Ins("LOAD_CONST", i, "")]
            \o <<Ins("LOAD_CONST", k + Len(kws) + 1, ""),
                 Ins("CALL_FUNCTION_KW", k + Len(kws), ""), Ins("RETURN_VALUE", 0, "")>>,
         <<None>> \o [i \in 1..k |-> PosArg(i)]
                  \o [j \in 1..Len(kws) |-> KwArg(kws[j])]
                  \o <<TupleV([j \in 1..Len(kws) |-> StrV(ParamNames[kws[j]])])>>,
         <<>>, 0)

KwCalls ==
    {Invocation(KwCallUnit(t[3], SetToSeq(t[4])), 1, <<>>, <<>>, CallGlobals,
                CallFuncs(t[1], t[2])) :
        t \in {u \in (0..MaxArgs) \X (0..MaxArgs) \X (0..MaxArgs) \X SUBSET (1..MaxArgs) :
                  /\ u[2] <= u[1] /\ u[3] <= u[1]
                  /\ u[4] \subseteq (u[3] + 1)..u[1]}}

\* the constants the builder family pushes
BuilderConsts == <<IntV(1), IntV(2), IntV(3)>>

\* push the constants cs, then one builder
BuilderUnit(opname, cs, n) ==
    Unit([i \in 1..Len(cs) |-> Ins("LOAD_CONST", cs[i], "")]
            \o <<Ins(opname, n, ""), Ins("RETURN_VALUE", 0, "")>>,
         BuilderConsts, <<>>, 0)

Builders ==
    {Invocation(BuilderUnit(t[1], t[2], t[3]), 0, <<>>, <<>>, <<>>, <<>>) :
        t \in {u \in {"BUILD_LIST", "BUILD_TUPLE", "BUILD_MAP"}
                        \X SeqsUpTo(0..(Len(BuilderConsts) - 1), MaxPush) \X (0..MaxPush) :
                  u[3] <= Len(u[2]) /\ (u[1] = "BUILD_MAP" => 2 * u[3] <= Len(u[2]))}}

\* the conditions the jump family tests
JumpConsts == <<None, IntV(0), IntV(1), BoolV(FALSE), BoolV(TRUE), TupleV(<<>>), IntV(7)>>

\* test a condition, jump to t or fall through
JumpUnit(opname, c, t) ==
    Unit(<<Ins("LOAD_CONST", c, ""), Ins(opname, t, ""), Ins("RETURN_CONST", 2, ""),
           Ins("CACHE", 0, ""), Ins("RETURN_CONST", 6, "")>>,
         JumpConsts, <<>>, 0)

Jumps ==
    {Invocation(JumpUnit(t[1], t[2], t[3]), 0, <<>>, <<>>, <<>>, <<>>) :
        t \in {"POP_JUMP_IF_FALSE", "POP_JUMP_IF_TRUE"} \X (0..5) \X (0..4)}

\* a chain of d functions: the first d - 1 are mid, each calling the g of its
\* own globals, the last has the body leaf; mid is the unit run at top level
ChainSpaces(d) == [j \in 1..d |-> <<Item(StrV("g"), FuncV(j))>>]
ChainFuncs(d, leaf) ==
    [j \in 1..d |-> IF j < d THEN Function("mid", j + 1, <<>>) ELSE Function(leaf, j, <<>>)]

Chains ==
    {Invocation(MidUnit, 1, <<>>, <<>>, ChainSpaces(t[1]), ChainFuncs(t[1], t[2])) :
        t \in (1..(MaxDepth - 1)) \X {"fail", "leaf", "f1", "mid"}}

\* the operands the arithmetic family pushes
ArithConsts == <<IntV(3), IntV(4), IntV(0), BoolV(TRUE), None, TupleV(<<IntV(1)>>)>>

ArithOps ==
    {Ins(op, 0, "") : op \in {"BINARY_ADD", "BINARY_SUBTRACT", "BINARY_MULTIPLY",
                               "BINARY_TRUE_DIVIDE", "BINARY_POWER"}}
    \cup {Ins("COMPARE_OP", 0, op) : op \in Comparators \cup {"in"}}

\* return a op b
ArithUnit(op, a, b) ==
    Unit(<<Ins("LOAD_CONST", a, ""), Ins("LOAD_CONST", b, ""), op,
           Ins("RETURN_VALUE", 0, "")>>,
         ArithConsts, <<>>, 0)

Ariths ==
    {Invocation(ArithUnit(t[1], t[2], t[3]), 0, <<>>, <<>>, <<>>, <<>>) :
        t \in ArithOps \X (0..(Len(ArithConsts) - 1)) \X (0..(Len(ArithConsts) - 1))}

\* the ways the twice family calls f: with k positional arguments, or with one
\* positional argument and the keyword y
TwiceCall(c) ==
    IF c = "kw"
    THEN <<Ins("LOAD_GLOBAL", 0, "f"), Ins("LOAD_CONST", 1, ""), Ins("LOAD_CONST", 2, ""),
           Ins("LOAD_CONST", 3, ""), Ins("CALL_FUNCTION_KW", 2, "")>>
    ELSE LET k == IF c = "p0" THEN 0 ELSE IF c = "p1" THEN 1 ELSE 2
         IN  <<Ins("LOAD_GLOBAL", 0, "f")>> \o [i \in 1..k |-> Ins("LOAD_CONST", i, "")]
                \o <<Ins("CALL_FUNCTION", k, "")>>

\* return (f(...), f(...)), run with locals x and t of its own
TwiceUnit(c1, c2) ==
    Unit(TwiceCall(c1) \o TwiceCall(c2)
            \o <<Ins("BUILD_TUPLE", 2, ""), Ins("RETURN_VALUE", 0, "")>>,
         <<None, PosArg(1), KwArg(2), TupleV(<<StrV("y")>>)>>, <<"x", "t">>, 2)

\* f is scratch, with a default for y
Twices ==
    {Invocation(TwiceUnit(c[1], c[2]), 1,
                <<Item(StrV("x"), IntV(99)), Item(StrV("t"), IntV(98))>>, <<>>,
                CallGlobals, <<Function("scratch", 1, <<DefaultArg(1)>>)>>) :
        c \in {"p0", "p1", "p2", "kw"} \X {"p0", "p1", "p2", "kw"}}

\* set(); return shared
AfterUnit ==
    Unit(<<Ins("LOAD_GLOBAL", 0, "set"), Ins("CALL_FUNCTION", 0, ""),
           Ins("LOAD_GLOBAL", 0, "shared"), Ins("RETURN_VALUE", 0, "")>>,
         <<None>>, <<>>, 0)

\* set(); return get()
LaterUnit ==
    Unit(<<Ins("LOAD_GLOBAL", 0, "set"), Ins("CALL_FUNCTION", 0, ""),
           Ins("LOAD_GLOBAL", 0, "get"), Ins("CALL_FUNCTION", 0, ""),
           Ins("RETURN_VALUE", 0, "")>>,
         <<None>>, <<>>, 0)

\* shared = 5; return (a function made here of get's code)()
MadeUnit ==
    Unit(<<Ins("LOAD_CONST", 1, ""), Ins("STORE_GLOBAL", 0, "shared"),
           Ins("LOAD_CONST", 2, ""), Ins("MAKE_FUNCTION", 0, ""),
           Ins("CALL_FUNCTION", 0, ""), Ins("RETURN_VALUE", 0, "")>>,
         <<None, IntV(5), CodeV("get")>>, <<>>, 0)

\* run in the first of two namespaces, which holds set and get; the globals of
\* set and of get are the first or the second namespace
Sharings ==
    {Invocation(t[1], 1, <<>>, <<>>,
                <<  <<Item(StrV("set"), FuncV(1)), Item(StrV("get"), FuncV(2))>>, <<>>  >>,
                <<Function("set", t[2], <<>>), Function("get", t[3], <<>>)>>) :
        t \in {AfterUnit, LaterUnit, MadeUnit} \X {1, 2} \X {1, 2}}

\* the values the function-construction family pushes
MakerConsts == <<None, IntV(2), TupleV(<<IntV(5)>>), CodeV("inner")>>

\* push the constants cs, make a function, return it
MakerUnit(cs) ==
    Unit([i \in 1..Len(cs) |-> Ins("LOAD_CONST", cs[i], "")]
            \o <<Ins("MAKE_FUNCTION", 0, ""), Ins("RETURN_VALUE", 0, "")>>,
         MakerConsts, <<>>, 0)

Makers ==
    {Invocation(MakerUnit(cs), 0, <<>>, <<>>, <<>>, <<>>) :
        cs \in SeqsUpTo(0..(Len(MakerConsts) - 1), MaxPush)}

\* return 3 + 4 * 2
PrecedenceUnit ==
    Unit(<<Ins("LOAD_CONST", 1, ""), Ins("LOAD_CONST", 2, ""), Ins("LOAD_CONST", 3, ""),
           Ins("BINARY_MULTIPLY", 0, ""), Ins("BINARY_ADD", 0, ""),
           Ins("RETURN_VALUE", 0, "")>>,
         <<None, IntV(3), IntV(4), IntV(2)>>, <<>>, 0)

Precedence == Invocation(PrecedenceUnit, 0, <<>>, <<>>, <<>>, <<>>)

\* the arguments host callables are called on
HostArgs == <<None, IntV(7), IntV(0 - 3), TupleV(<<IntV(1), IntV(2)>>), TupleV(<<>>)>>

\* return (7, name(x))[-1], called positionally or with an empty kw_names
HostUnit(name, x, kw) ==
    Unit(<<Ins("LOAD_CONST", 1, ""), Ins("LOAD_GLOBAL", 0, name), Ins("LOAD_CONST", x, "")>>
            \o (IF kw THEN <<Ins("LOAD_CONST", 4, ""), Ins("CALL_FUNCTION_KW", 1, "")>>
                ELSE <<Ins("CALL_FUNCTION", 1, "")>>)
            \o <<Ins("RETURN_VALUE", 0, "")>>,
         HostArgs, <<>>, 0)

\* skip k instructions, test a condition and jump to t or fall through, and
\* run off the end of the code
ForwardUnit(k, c, t) ==
    Unit(<<Ins("JUMP_FORWARD", k, ""), Ins("LOAD_CONST", c, ""),
           Ins("POP_JUMP_IF_FALSE", t, ""), Ins("LOAD_CONST", 6, ""),
           Ins("RESUME", 0, ""), Ins("KW_NAMES", 0, "")>>,
         JumpConsts, <<>>, 0)

Forwards ==
    {Invocation(ForwardUnit(k, c, t), 0, <<>>, <<>>, <<>>, <<>>) :
        k \in 0..3, c \in 1..2, t \in 3..6}

HostCalls ==
    {Invocation(HostUnit(name, x, kw), 0, <<>>, <<>>, <<>>, <<>>) :
        name \in BuiltinNames, x \in 0..3, kw \in BOOLEAN}

\* the instructions of the exhaustively enumerated short units
Alphabet ==
    {Ins("RESUME", 0, ""), Ins("KW_NAMES", 0, ""), Ins("RETURN_CONST", 1, ""),
     Ins("MAKE_FUNCTION", 0, ""), Ins("LOAD_CONST", 0, ""), Ins("LOAD_CONST", 1, ""),
     Ins("LOAD_CONST", 2, ""), Ins("LOAD_CONST", 3, ""), Ins("LOAD_FAST", 0, "a"),
     Ins("LOAD_FAST", 1, "b"), Ins("STORE_FAST", 1, "b"), Ins("LOAD_GLOBAL", 0, "inner"),
     Ins("LOAD_GLOBAL", 0, "abs"), Ins("LOAD_GLOBAL", 0, "len"),
     Ins("LOAD_GLOBAL", 0, "nope"), Ins("STORE_GLOBAL", 0, "abs"),
     Ins("LOAD_DEREF", 0, "c"), Ins("LOAD_DEREF", 0, "nope"), Ins("STORE_DEREF", 0, "nope"),
     Ins("BINARY_ADD", 0, ""), Ins("BINARY_POWER", 0, ""), Ins("COMPARE_OP", 0, "<"),
     Ins("COMPARE_OP", 0, "in"), Ins("POP_JUMP_IF_FALSE", 0, ""),
     Ins("POP_JUMP_IF_TRUE", 0, ""), Ins("JUMP_FORWARD", 1, ""), Ins("FOR_ITER", 0, ""),
     Ins("BUILD_LIST", 1, ""), Ins("BUILD_TUPLE", 0, ""), Ins("BUILD_MAP", 1, ""),
     Ins("CALL_FUNCTION", 0, ""), Ins("CALL_FUNCTION", 1, ""),
     Ins("CALL_FUNCTION_KW", 1, ""), Ins("RETURN_VALUE", 0, ""), Ins("NOP", 0, "")}

\* a short unit, run with a local a, a closure cell c, and globals that hold
\* the function inner and an entry that shadows the builtin len
Shorts ==
    {Invocation(Unit(instrs, <<None, IntV(2), TupleV(<<StrV("y")>>), CodeV("inner")>>,
                     <<"a", "b">>, 0),
                1, <<Item(StrV("a"), IntV(3))>>, <<Item(StrV("c"), IntV(8))>>,
                <<  <<Item(StrV("inner"), FuncV(1)), Item(StrV("len"), IntV(9))>>  >>,
                <<Function("inner", 1, <<IntV(1)>>)>>) :
        instrs \in SeqsUpTo(Alphabet, GenLen)}

\* the invocations written out by family; the short units are explored with them
Invocations ==
    {Example, Precedence} \cup PosCalls \cup KwCalls \cup Builders \cup Jumps
        \cup Chains \cup Ariths \cup Twices \cup Sharings \cup Makers \cup HostCalls
        \cup Forwards

NoInvocation ==
    [Invocation(Unit(<<>>, <<>>, <<>>, 0), 0, <<>>, <<>>, <<>>, <<>>) EXCEPT !.run = 0]

(***************************************************************************)
(* The specification: a TinyVM is constructed, the harness calls run_code  *)
(* once, and run_frame executes instruction after instruction.             *)
(***************************************************************************)
\* TinyVM.__init__
Init ==
    /\ frames = <<>>
    /\ frame = 0
    /\ namespaces = <<>>
    /\ funcs = <<>>
    /\ status = "idle"
    /\ calls = 0
    /\ exc = NoExc
    /\ result = None
    /\ log = <<>>
    /\ last = NoStep
    /\ inv = NoInvocation

\* the harness calls run_code; globals None stands for a new empty dict
RunCode ==
    /\ status = "idle"
    /\ \E i \in Invocations \cup Shorts :
        LET nss == IF i.globals = 0 THEN Append(i.namespaces, <<>>) ELSE i.namespaces
            g == IF i.globals = 0 THEN Len(nss) ELSE i.globals
        IN  /\ inv' = i
            /\ funcs' = i.funcs
            /\ Enter(frames, nss, i.code_obj, g, i.locals, i.closure_cells)
    /\ status' = "running"
    /\ last' = NoStep
    /\ UNCHANGED <<exc, result, log>>

Next ==
    \/ RunCode
    \/ SkipOp
    \/ KwNames
    \/ ReturnConst
    \/ MakeFunction
    \/ LoadConst
    \/ LoadFast
    \/ StoreFast
    \/ LoadGlobal
    \/ StoreGlobal
    \/ LoadDeref
    \/ StoreDeref
    \/ Binary
    \/ CompareOp
    \/ PopJump
    \/ JumpForward
    \/ ForIter
    \/ BuildList
    \/ BuildTuple
    \/ BuildMap
    \/ CallFunction
    \/ CallFunctionKw
    \/ ReturnValue
    \/ Unsupported
    \/ EndOfCode
    \/ Handler

Spec == Init /\ [][Next]_vars

\* the steps of run_frame and run_code that enter no new activation
Straight ==
    \/ SkipOp \/ KwNames \/ ReturnConst \/ MakeFunction \/ LoadConst \/ LoadFast
    \/ StoreFast \/ LoadGlobal \/ StoreGlobal \/ LoadDeref \/ StoreDeref \/ Binary
    \/ CompareOp \/ PopJump \/ JumpForward \/ ForIter \/ BuildList \/ BuildTuple
    \/ BuildMap \/ ReturnValue \/ Unsupported \/ EndOfCode \/ Handler

\* the dispatch loop is sequential and never waits: an activation that can
\* take a step takes one (nothing is assumed of the call instructions)
FairSpec == Init /\ [][Next]_vars /\ WF_vars(Straight)

(***************************************************************************)
(* Several top-level calls of run_code on one TinyVM, in one process: the  *)
(* namespaces and the function objects live on from one call to the next,  *)
(* and so does whatever a call left in frames.                             *)
(***************************************************************************)
\* the namespaces of these calls and the functions they hold: the calls run on
\* the first namespace, where g fails and h returns; m and n call the g of
\* their own globals, which returns for m and fails for n
RunsSpaces ==
    <<  <<Item(StrV("g"), FuncV(1)), Item(StrV("h"), FuncV(2)),
          Item(StrV("m"), FuncV(3)), Item(StrV("n"), FuncV(4))>>,
        <<Item(StrV("g"), FuncV(2))>>,
        <<Item(StrV("g"), FuncV(1))>>  >>
RunsFuncs ==
    <<Function("fail", 1, <<>>), Function("leaf", 1, <<>>),
      Function("mid", 2, <<>>), Function("mid", 3, <<>>)>>

\* return name()
CallUnit(name) ==
    Unit(<<Ins("LOAD_GLOBAL", 0, name), Ins("CALL_FUNCTION", 0, ""),
           Ins("RETURN_VALUE", 0, "")>>,
         <<None>>, <<>>, 0)

\* a unit that goes through the implemented opcodes and returns 6
TourUnit ==
    Unit(<<Ins("RESUME", 0, ""), Ins("KW_NAMES", 0, ""),
           Ins("LOAD_CONST", 1, ""), Ins("STORE_FAST", 0, "t"), Ins("LOAD_FAST", 0, "t"),
           Ins("STORE_GLOBAL", 0, "s"), Ins("LOAD_GLOBAL", 0, "s"),
           Ins("STORE_DEREF", 0, "c"), Ins("LOAD_DEREF", 0, "c"),
           Ins("LOAD_CONST", 1, ""), Ins("BINARY_ADD", 0, ""),
           Ins("LOAD_CONST", 1, ""), Ins("COMPARE_OP", 0, "<"),
           Ins("POP_JUMP_IF_TRUE", 15, ""), Ins("JUMP_FORWARD", 0, ""),
           Ins("LOAD_CONST", 1, ""), Ins("LOAD_CONST", 1, ""), Ins("BUILD_MAP", 1, ""),
           Ins("BUILD_LIST", 1, ""), Ins("BUILD_TUPLE", 1, ""), Ins("STORE_FAST", 0, "t"),
           Ins("LOAD_CONST", 4, ""), Ins("LOAD_CONST", 3, ""), Ins("MAKE_FUNCTION", 0, ""),
           Ins("STORE_GLOBAL", 0, "inner"),
           Ins("LOAD_GLOBAL", 0, "inner"), Ins("LOAD_CONST", 1, ""),
           Ins("CALL_FUNCTION", 1, ""),
           Ins("LOAD_GLOBAL", 0, "inner"), Ins("LOAD_CONST", 1, ""),
           Ins("LOAD_CONST", 1, ""), Ins("LOAD_CONST", 2, ""),
           Ins("CALL_FUNCTION_KW", 2, ""),
           Ins("BINARY_ADD", 0, ""), Ins("RETURN_VALUE", 0, "")>>,
         <<None, IntV(2), TupleV(<<StrV("y")>>), CodeV("inner"), TupleV(<<IntV(1)>>)>>,
         <<"t">>, 0)

\* the calls made: calls that fail or return one and two activations below the
\* top, the tour, one that fails at top level, one that runs off its code
Reruns ==
    {Invocation(u, 1, <<>>, <<>>, RunsSpaces, RunsFuncs) :
        u \in {CallUnit("g"), CallUnit("h"), CallUnit("m"), CallUnit("n"), TourUnit,
               Unit(<<Ins("NOP", 0, "")>>, <<None>>, <<>>, 0),
               Unit(<<>>, <<None>>, <<>>, 0)}}

\* the harness calls run_code, on a new TinyVM or after an earlier call has
\* returned or raised
Rerun ==
    /\ status \in {"idle", "returned", "raised"}
    /\ inv.run < MaxRuns
    /\ \E i \in Reruns :
        /\ inv' = [i EXCEPT !.run = inv.run + 1]
        /\ funcs' = IF status = "idle" THEN i.funcs ELSE funcs
        /\ Enter(frames, IF status = "idle" THEN i.namespaces ELSE namespaces,
                 i.code_obj, i.globals, i.locals, i.closure_cells)
    /\ status' = "running"
    /\ exc' = NoExc
    /\ result' = None
    /\ last' = NoStep
    /\ UNCHANGED log

RunsNext ==
    \/ Rerun
    \/ SkipOp
    \/ KwNames
    \/ ReturnConst
    \/ MakeFunction
    \/ LoadConst
    \/ LoadFast
    \/ StoreFast
    \/ LoadGlobal
    \/ StoreGlobal
    \/ LoadDeref
    \/ StoreDeref
    \/ Binary
    \/ CompareOp
    \/ PopJump
    \/ JumpForward
    \/ ForIter
    \/ BuildList
    \/ BuildTuple
    \/ BuildMap
    \/ CallFunction
    \/ CallFunctionKw
    \/ ReturnValue
    \/ Unsupported
    \/ EndOfCode
    \/ Handler

Runs == Init /\ [][RunsNext]_vars

(***************************************************************************)
(* Properties.  `last` holds the instruction of the latest step and the    *)
(* frame it started from, so the effect of one instruction is a state      *)
(* predicate: compare last.frame with the frame as it is now.              *)
(***************************************************************************)
\* the frame the latest instruction ran in, as it is now
After == frames[last.at]
\* the latest step fetched an instruction (it was not the end of the code)
Fetched == last.at > 0 /\ last.frame.ip < Len(last.frame.code_obj.instructions)
\* the latest step executed an instruction with this opcode
Did(opname) == Fetched /\ last.instr.opname = opname
\* ... and its handler ended normally, in the same frame
Completed(opname) == Did(opname) /\ status = "running" /\ Top = last.at
\* ... or it was a call that has just entered a callee frame
Entered(opname) == Did(opname) /\ status = "running" /\ Top = last.at + 1
Failed == status \in {"unwinding", "raised"}
\* the stack before the latest instruction, and its k-th value from the top
Before == last.frame.stack
FromTop(k) == Before[Len(Before) - k + 1]

\* C1: the run of outer (return a + inner(b, y=2)) with locals a = 3, b = 4 and
\* globals holding inner (return x * y, default y = 1) ends by returning 11.
C1_EndToEnd ==
    (inv = Example /\ status \in {"returned", "raised"})
        => (status = "returned" /\ result = IntV(11))

C1_Witness == inv = Example /\ status = "returned" /\ Did("RETURN_VALUE")

\* the callee of the call that has just been entered: its function object, its
\* code, and the number of values the call passed positionally
CalleeFunc(nargs) == funcs[FromTop(nargs + 1).n]
CalleeCode(nargs) == CodeObjects[CalleeFunc(nargs).code]
\* the keyword names of the CALL_FUNCTION_KW just entered, and the value passed
\* for the j-th of them
KwNamesPassed == FromTop(1).xs
KwValuePassed(j) == FromTop(1 + Len(KwNamesPassed) - j + 1)
KwPositionalCount == last.instr.arg - Len(KwNamesPassed)

\* C2: when a keyword-augmented call has entered its callee, every parameter the
\* call supplied by keyword is bound in the callee's locals to the keyword value.
C2_KeywordOverride ==
    Entered("CALL_FUNCTION_KW") =>
        \A j \in 1..Len(KwNamesPassed) :
            /\ DictHas(Cur.locals, KwNamesPassed[j])
            /\ DictGet(Cur.locals, KwNamesPassed[j]) = KwValuePassed(j)

\* C3: when a keyword-augmented call has entered its callee, every declared
\* parameter that got no positional and no keyword value and has a right-aligned
\* default is bound to that default.
C3_KeywordDefaults ==
    Entered("CALL_FUNCTION_KW") =>
        LET code == CalleeCode(last.instr.arg + 1)
            defaults == CalleeFunc(last.instr.arg + 1).defaults
        IN  \A i \in 0..(code.co_argcount - 1) :
                LET name == StrV(code.co_varnames[i + 1])
                    di == i - (code.co_argcount - Len(defaults))
                IN  (/\ i >= KwPositionalCount
                     /\ \A j \in 1..Len(KwNamesPassed) : KwNamesPassed[j] # name
                     /\ 0 <= di /\ di < Len(defaults))
                        => (/\ DictHas(Cur.locals, name)
                            /\ DictGet(Cur.locals, name) = defaults[di + 1])

\* C4: when a positional call with k arguments has entered its callee, parameter
\* i is bound to argument i for i < k, to defaults[i - (argcount - len(defaults))]
\* for i >= k exactly when that index is in range, and to nothing otherwise; and
\* a LOAD_FAST of a name that is not bound raises NameError.
C4_PositionalDefaults ==
    /\ Entered("CALL_FUNCTION") =>
        LET k == last.instr.arg
            code == CalleeCode(k)
            defaults == CalleeFunc(k).defaults
            di(i) == i - (code.co_argcount - Len(defaults))
            bound == {i \in 0..(code.co_argcount - 1) :
                         i < k \/ (0 <= di(i) /\ di(i) < Len(defaults))}
        IN  /\ k <= code.co_argcount
            /\ Len(Cur.locals) = Cardinality(bound)
            /\ \A i \in 0..(code.co_argcount - 1) :
                LET name == StrV(code.co_varnames[i + 1])
                IN  IF i < k
                    THEN DictHas(Cur.locals, name) /\ DictGet(Cur.locals, name) = FromTop(k - i)
                    ELSE IF i \in bound
                    THEN DictHas(Cur.locals, name)
                            /\ DictGet(Cur.locals, name) = defaults[di(i) + 1]
                    ELSE ~DictHas(Cur.locals, name)
    /\ (/\ Did("LOAD_FAST")
        /\ last.instr.arg < Len(last.frame.code_obj.co_varnames)
        /\ ~DictHas(last.frame.locals, StrV(last.frame.code_obj.co_varnames[last.instr.arg + 1])))
            => (Failed /\ exc.type = "NameError")

\* a callee entered with its first parameter passed, a later one left unbound
\* and the last one bound to its default, has failed on loading the unbound one
C4_Witness ==
    /\ Did("LOAD_FAST") /\ Failed /\ exc.type = "NameError" /\ last.at = 2
    /\ last.frame.locals = <<Item(StrV("x"), PosArg(1)), Item(StrV("z"), DefaultArg(1))>>

\* the pairs BUILD_MAP n was given, in push order: key and value of the j-th
MapKey(j) == Before[Len(Before) - 2 * last.instr.arg + 2 * j - 1]
MapValue(j) == Before[Len(Before) - 2 * last.instr.arg + 2 * j]

\* C5: BUILD_MAP n on n pushed (key, value) pairs yields a mapping that holds,
\* for every pushed key, the value of the last pair pushed with that key.
C5_MapLastWins ==
    (Completed("BUILD_MAP") /\ 2 * last.instr.arg <= Len(Before)) =>
        LET n == last.instr.arg
            d == After.stack[Len(After.stack)]
        IN  /\ Len(After.stack) = Len(Before) - 2 * n + 1
            /\ d.t = "dict"
            /\ \A j \in 1..n :
                LET lastj == CHOOSE m \in j..n :
                                /\ PyEq(MapKey(m), MapKey(j))
                                /\ \A m2 \in (m + 1)..n : ~PyEq(MapKey(m2), MapKey(j))
                IN  DictHas(d.xs, MapKey(j)) /\ DictGet(d.xs, MapKey(j)) = MapValue(lastj)

\* C6: BUILD_LIST n and BUILD_TUPLE n, on a stack of at least n values, pop the
\* top n values and push one sequence holding them in push order.
C6_BuilderOrder ==
    \A op \in {"BUILD_LIST", "BUILD_TUPLE"} :
        (Did(op) /\ last.instr.arg <= Len(Before)) =>
            LET n == last.instr.arg
                kept == Len(Before) - n
            IN  /\ Completed(op)
                /\ Len(After.stack) = kept + 1
                /\ \A i \in 1..kept : After.stack[i] = Before[i]
                /\ After.stack[kept + 1].t = (IF op = "BUILD_LIST" THEN "list" ELSE "tuple")
                /\ Len(After.stack[kept + 1].xs) = n
                /\ \A i \in 1..n : After.stack[kept + 1].xs[i] = Before[kept + i]

\* pushing 1, 2, 3 and building a list of three has left the list [1, 2, 3]
C6_Witness ==
    /\ Completed("BUILD_LIST") /\ last.instr.arg = 3
    /\ After.stack = <<ListV(<<IntV(1), IntV(2), IntV(3)>>)>>

\* C7: POP_JUMP_IF_FALSE t pops one value and continues at index t when the value
\* is false and at the next index when it is true; POP_JUMP_IF_TRUE is the mirror
\* image; for every target t, 0 included.
C7_ConditionalJump ==
    \A op \in {"POP_JUMP_IF_FALSE", "POP_JUMP_IF_TRUE"} :
        (Did(op) /\ Before # <<>>) =>
            LET jumps == (op = "POP_JUMP_IF_FALSE") = ~Truthy(FromTop(1))
            IN  /\ Completed(op)
                /\ After.stack = SubSeq(Before, 1, Len(Before) - 1)
                /\ After.ip = (IF jumps THEN last.instr.arg ELSE last.frame.ip + 1)

\* a false condition has sent POP_JUMP_IF_FALSE 0 back to index 0
C7_Witness ==
    /\ Completed("POP_JUMP_IF_FALSE") /\ last.instr.arg = 0
    /\ ~Truthy(FromTop(1)) /\ After.ip = 0

\* the instruction is one the interpreter does not implement
IsUnsupported(instr) ==
    \/ instr.opname = "FOR_ITER"
    \/ instr.opname \notin Recognized /\ ~StartsWith(instr.opname, "BINARY_")
    \/ /\ StartsWith(instr.opname, "BINARY_")
       /\ instr.opname \notin {"BINARY_ADD", "BINARY_SUBTRACT", "BINARY_MULTIPLY",
                                "BINARY_TRUE_DIVIDE"}
    \/ instr.opname = "COMPARE_OP" /\ instr.argval \notin Comparators

\* C8: whenever the instruction executed is FOR_ITER, an unknown opcode, an
\* unknown BINARY_ opcode or a COMPARE_OP with an unknown comparator, the run
\* ends with NotImplementedError.
C8_UnsupportedFails ==
    (Fetched /\ IsUnsupported(last.instr))
        => (Failed /\ exc.type = "NotImplementedError")

\* C9: loads of unresolved names raise NameError and push nothing; LOAD_GLOBAL
\* falls back to the builtin table, and the globals take precedence over it.
C9_UnresolvedNames ==
    LET name == StrV(last.instr.argval)
        unchanged == After.stack = Before
        raised == Failed /\ exc.type = "NameError" /\ unchanged
        pushed(v) == Completed(last.instr.opname) /\ After.stack = Append(Before, v)
    IN  /\ (/\ Did("LOAD_FAST")
            /\ last.instr.arg < Len(last.frame.code_obj.co_varnames)
            /\ ~DictHas(last.frame.locals,
                        StrV(last.frame.code_obj.co_varnames[last.instr.arg + 1])))
                => raised
        /\ Did("LOAD_GLOBAL") =>
            IF DictHas(namespaces[last.frame.globals], name)
            THEN pushed(DictGet(namespaces[last.frame.globals], name))
            ELSE IF last.instr.argval \in BuiltinNames
            THEN pushed(BuiltinV(last.instr.argval))
            ELSE raised
        /\ (Did("LOAD_DEREF") /\ ~DictHas(last.frame.closure_cells, name)) => raised

\* a global named len has been loaded in place of the builtin len
C9_Witness ==
    /\ Completed("LOAD_GLOBAL") /\ last.instr.argval = "len"
    /\ After.stack = <<IntV(9)>>

\* C10: once an error is raised, in a callee at any depth, no frame changes any
\* more, no result is produced, the error stays the same through every
\* enclosing activation, and the top-level run_code ends by raising it.
C10_ErrorPropagation ==
    /\ [](status = "unwinding" => calls >= 1)
    /\ [](status = "raised" => (calls = 0 /\ exc # NoExc /\ result = None))
    /\ [][Failed => (/\ Failed'
                     /\ exc' = exc
                     /\ frames' = frames
                     /\ result' = result
                     /\ namespaces' = namespaces
                     /\ calls' = calls - 1)]_vars

\* an error raised three activations deep has reached the harness
C10_Witness ==
    /\ status = "raised" /\ exc.type = "NotImplementedError"
    /\ last.at >= 3 /\ calls = 0

\* C11: an error raised inside a nested call is logged once, by the outermost
\* run_code activation: nothing is logged while the error passes through the
\* nested activations, and the log of a failed run is the one line of its error.
C11_OutermostLogs ==
    /\ (status = "unwinding" /\ calls > 1) => log = <<>>
    /\ status = "raised" => log = <<exc>>

\* C12: whenever a top-level run_code call has completed, by returning or by
\* raising, and whatever calls were made before it on the same TinyVM, the
\* call stack is empty and there is no current frame.
C12_FrameLifecycle ==
    status \in {"returned", "raised"} => (frames = <<>> /\ frame = 0)

\* C13: on two integers, pushed a then b, BINARY_ADD, BINARY_SUBTRACT and
\* BINARY_MULTIPLY replace them by a + b, a - b and a * b, and COMPARE_OP by
\* the truth of a < b, a <= b, a > b, a >= b, a == b, a != b; and the unit
\* computing 3 + 4 * 2 returns 11.
C13_OperandOrder ==
    LET ints == Len(Before) >= 2 /\ FromTop(1).t = "int" /\ FromTop(2).t = "int"
        a == FromTop(2).n
        b == FromTop(1).n
        op == last.instr.argval
        left(v) == Completed(last.instr.opname)
                      /\ After.stack = Append(SubSeq(Before, 1, Len(Before) - 2), v)
    IN  /\ (Did("BINARY_ADD") /\ ints) => left(IntV(a + b))
        /\ (Did("BINARY_SUBTRACT") /\ ints) => left(IntV(a - b))
        /\ (Did("BINARY_MULTIPLY") /\ ints) => left(IntV(a * b))
        /\ (Did("COMPARE_OP") /\ ints /\ op \in Comparators) =>
              left(BoolV(IF op = "<" THEN a < b
                         ELSE IF op = "<=" THEN a <= b
                         ELSE IF op = ">" THEN a > b
                         ELSE IF op = ">=" THEN a >= b
                         ELSE IF op = "==" THEN a = b
                         ELSE a # b))
        /\ (inv = Precedence /\ status \in {"returned", "raised"})
              => (status = "returned" /\ result = IntV(11))

\* 3 and 4 were pushed in this order and BINARY_SUBTRACT has left -1
C13_Witness ==
    /\ Completed("BINARY_SUBTRACT")
    /\ FromTop(2) = IntV(3) /\ FromTop(1) = IntV(4)
    /\ After.stack = <<IntV(0 - 1)>>

\* C14: RETURN_VALUE ends its frame at once and yields the top of the stack, or
\* None when the stack is empty; RETURN_CONST ends it and yields co_consts[arg]
\* whatever the stack holds. The frame is gone from the call stack, so nothing
\* more runs in it, and the value is the result of the run or, for a callee,
\* is pushed on the caller's stack.
C14_Return ==
    LET consts == last.frame.code_obj.co_consts
        yields(v) ==
            /\ Len(frames) = last.at - 1
            /\ IF last.at = 1
               THEN status = "returned" /\ result = v
               ELSE /\ status = "running"
                    /\ Cur.stack # <<>>
                    /\ Cur.stack[Len(Cur.stack)] = v
    IN  /\ Did("RETURN_VALUE") => yields(IF Before = <<>> THEN None ELSE FromTop(1))
        /\ (Did("RETURN_CONST") /\ InRange(consts, last.instr.arg))
              => yields(consts[last.instr.arg + 1])

\* RETURN_CONST has ended a run with its constant, over another value on the stack
C14_Witness ==
    /\ Did("RETURN_CONST") /\ status = "returned"
    /\ Before # <<>> /\ result # FromTop(1)
    /\ result = last.frame.code_obj.co_consts[last.instr.arg + 1]

\* the number of values a call instruction pops
CallPops(instr) == IF instr.opname = "CALL_FUNCTION" THEN instr.arg + 1 ELSE instr.arg + 2

\* C15: a call of a Function Value runs the callee in a new frame: empty stack,
\* instruction pointer 0, no closure cells, and locals that hold only names the
\* call bound (declared parameters and keyword names), nothing of the caller's
\* or of an earlier call's; the caller's frame is left with its locals as they
\* were and its stack without the callable and the arguments. No step changes
\* a frame below the running one, and the step that returns to the caller
\* changes nothing in the caller's frame but pushes one value on its stack and
\* advances its pointer.
C15_FreshFrames ==
    /\ [](\A op \in {"CALL_FUNCTION", "CALL_FUNCTION_KW"} :
            Entered(op) =>
                LET callee == CalleeFunc(CallPops(last.instr) - 1)
                    code == CodeObjects[callee.code]
                    names == {StrV(code.co_varnames[i]) : i \in 1..code.co_argcount}
                                \cup (IF op = "CALL_FUNCTION_KW"
                                      THEN {KwNamesPassed[j] : j \in 1..Len(KwNamesPassed)}
                                      ELSE {})
                IN  /\ Cur.code_obj = code
                    /\ Cur.stack = <<>> /\ Cur.block_stack = <<>>
                    /\ Cur.ip = 0 /\ Cur.last_instruction = 0
                    /\ Cur.closure_cells = <<>>
                    /\ \A j \in 1..Len(Cur.locals) : Cur.locals[j].xs[1] \in names
                    /\ After = [last.frame EXCEPT
                                  !.stack = SubSeq(Before, 1,
                                                   Len(Before) - CallPops(last.instr))])
    /\ [][\A i \in 1..Len(frames) :
            (i < Len(frames) /\ i < Len(frames')) => frames'[i] = frames[i]]_vars
    /\ [][(status = "running" /\ status' = "running" /\ Len(frames') = Len(frames) - 1) =>
            LET caller == frames[Len(frames')]
                back == frames'[Len(frames')]
            IN  /\ Len(back.stack) = Len(caller.stack) + 1
                /\ back = [caller EXCEPT !.stack = back.stack, !.ip = caller.ip + 1,
                                         !.last_instruction = caller.ip + 1]
                /\ SubSeq(back.stack, 1, Len(caller.stack)) = caller.stack]_vars

\* the second call of scratch has been entered, after the first one stored a
\* local t and left a value on its stack: its frame has neither
C15_Witness ==
    /\ inv \in Twices /\ Entered("CALL_FUNCTION") /\ last.frame.ip > 2
    /\ Cur.stack = <<>> /\ ~DictHas(Cur.locals, StrV("t"))
    /\ DictGet(After.locals, StrV("t")) = IntV(98)

\* C16: STORE_GLOBAL binds the name in the namespace of its frame; a binding of
\* a namespace stays as it is until a STORE_GLOBAL of the same name in a frame
\* on that namespace; LOAD_GLOBAL reads the namespace of its frame; a function
\* made by MAKE_FUNCTION has the globals of the frame that made it, and a
\* callee runs on the globals of its function. So a value stored by a callee is
\* loaded by its caller, by a later callee and by a function made later exactly
\* when they are on the same namespace.
C16_SharedGlobals ==
    /\ []((Completed("STORE_GLOBAL") /\ Before # <<>>) =>
            /\ DictHas(namespaces[last.frame.globals], StrV(last.instr.argval))
            /\ DictGet(namespaces[last.frame.globals], StrV(last.instr.argval)) = FromTop(1))
    /\ []((Did("LOAD_GLOBAL")
            /\ DictHas(namespaces[last.frame.globals], StrV(last.instr.argval))) =>
            /\ Completed("LOAD_GLOBAL")
            /\ After.stack = Append(Before, DictGet(namespaces[last.frame.globals],
                                                    StrV(last.instr.argval))))
    /\ [](Completed("MAKE_FUNCTION") =>
            LET made == After.stack[Len(After.stack)]
            IN  made.t = "function" /\ funcs[made.n].globals = last.frame.globals)
    /\ [](\A op \in {"CALL_FUNCTION", "CALL_FUNCTION_KW"} :
            Entered(op) => Cur.globals = CalleeFunc(CallPops(last.instr) - 1).globals)
    /\ [][\A g \in 1..Len(namespaces) : \A j \in 1..Len(namespaces[g]) :
            LET k == namespaces[g][j].xs[1]
            IN  /\ Len(namespaces') >= g
                /\ DictHas(namespaces'[g], k)
                /\ \/ DictGet(namespaces'[g], k) = DictGet(namespaces[g], k)
                   \/ At("STORE_GLOBAL") /\ Cur.globals = g /\ StrV(Instr.argval) = k]_vars
    /\ [](\A i \in Sharings :
            (inv = i /\ status \in {"returned", "raised"}) =>
                IF \/ i.code_obj = MadeUnit
                   \/ i.code_obj = AfterUnit /\ i.funcs[1].globals = 1
                   \/ i.code_obj = LaterUnit /\ i.funcs[1].globals = i.funcs[2].globals
                THEN status = "returned" /\ result = IntV(5)
                ELSE status = "raised" /\ exc.type = "NameError")

\* set and get are both on the second namespace, the caller on the first:
\* get has returned what set stored
C16_Witness ==
    /\ inv \in Sharings /\ inv.code_obj = LaterUnit
    /\ inv.funcs[1].globals = 2 /\ inv.funcs[2].globals = 2
    /\ status = "returned" /\ result = IntV(5)
    /\ DictGet(namespaces[2], StrV("shared")) = IntV(5)
    /\ ~DictHas(namespaces[1], StrV("shared"))

C18_CallStackShape ==
    /\ [](frame = Len(frames))
    /\ [](\A op \in {"CALL_FUNCTION", "CALL_FUNCTION_KW"} :
            Entered(op) =>
                /\ Len(frames) = last.at + 1
                /\ frames[last.at].code_obj = last.frame.code_obj
                /\ frames[last.at].ip = last.frame.ip
                /\ Cur.code_obj = CalleeCode(CallPops(last.instr) - 1))
    /\ [][/\ Len(frames') \in {Len(frames) - 1, Len(frames), Len(frames) + 1}
          /\ \A i \in 1..Len(frames) :
                (i < Len(frames) /\ i <= Len(frames')) =>
                    /\ frames'[i].code_obj = frames[i].code_obj
                    /\ frames'[i].locals = frames[i].locals
                    /\ (i < Len(frames')) => frames'[i] = frames[i]
          /\ (Len(frames') = Len(frames) - 1 /\ status' = "running") =>
                /\ frame' = Len(frames) - 1
                /\ frames'[frame'].ip = frames[frame'].ip + 1]_vars

\* an earlier call has failed and left its frames; in a later call a callee has
\* returned to its caller, which is current again above the frames left
C18_Witness ==
    /\ inv.run = 2 /\ status = "running" /\ Did("RETURN_CONST")
    /\ Len(frames) = last.at - 1 /\ Len(frames) >= 3
    /\ frame = Len(frames)
    /\ Cur.code_obj = inv.code_obj

\* the documented stack effect of an instruction: the number of values it
\* consumes from the top of the stack and the number it leaves in their place
Consumes(instr) ==
    IF instr.opname \in {"STORE_FAST", "STORE_GLOBAL", "STORE_DEREF",
                         "POP_JUMP_IF_FALSE", "POP_JUMP_IF_TRUE"} THEN 1
    ELSE IF StartsWith(instr.opname, "BINARY_") \/ instr.opname = "COMPARE_OP" THEN 2
    ELSE IF instr.opname \in {"BUILD_LIST", "BUILD_TUPLE"} THEN instr.arg
    ELSE IF instr.opname = "BUILD_MAP" THEN 2 * instr.arg
    ELSE IF instr.opname \in {"CALL_FUNCTION", "CALL_FUNCTION_KW"} THEN CallPops(instr)
    ELSE 0
Produces(instr) ==
    IF instr.opname \in {"LOAD_CONST", "LOAD_FAST", "LOAD_GLOBAL", "LOAD_DEREF",
                         "BUILD_LIST", "BUILD_TUPLE", "BUILD_MAP", "COMPARE_OP",
                         "CALL_FUNCTION", "CALL_FUNCTION_KW"}
          \/ StartsWith(instr.opname, "BINARY_") THEN 1
    ELSE 0
\* the instructions the documented effects are stated for
Documented(instr) ==
    \/ Consumes(instr) + Produces(instr) > 0
    \/ instr.opname \in {"RESUME", "CACHE", "KW_NAMES", "JUMP_FORWARD", "BUILD_LIST",
                          "BUILD_TUPLE", "BUILD_MAP"}

\* the sum of the documented effects of a sequence of instructions
RECURSIVE NetEffect(_)
NetEffect(instrs) ==
    IF instrs = <<>> THEN 0
    ELSE Produces(Head(instrs)) - Consumes(Head(instrs)) + NetEffect(Tail(instrs))

\* a sequence of documented instructions that run one after the other
StraightLine(instrs) ==
    \A i \in 1..Len(instrs) :
        /\ Documented(instrs[i])
        /\ instrs[i].opname \notin {"POP_JUMP_IF_FALSE", "POP_JUMP_IF_TRUE",
                                     "CALL_FUNCTION", "CALL_FUNCTION_KW"}
        /\ instrs[i].opname = "JUMP_FORWARD" => instrs[i].arg = 0

\* C19: an instruction with a documented stack effect that completes leaves the
\* stack of its frame with the values it consumed removed from the top, the
\* values below them as they were, and the documented number of values (one or
\* none) in their place; a call of a Function Value leaves the caller's stack
\* without its operands while the callee runs, and the return pushes one value
\* on it. So a straight-line unit whose effects sum to zero ends, when the
\* pointer passes its last instruction, on an empty stack.
C19_StackDiscipline ==
    /\ []((Fetched /\ Documented(last.instr) /\ status = "running" /\ Top = last.at) =>
            /\ Consumes(last.instr) <= Len(Before)
            /\ Len(After.stack) = Len(Before) - Consumes(last.instr) + Produces(last.instr)
            /\ SubSeq(After.stack, 1, Len(Before) - Consumes(last.instr))
                  = SubSeq(Before, 1, Len(Before) - Consumes(last.instr)))
    /\ [](\A op \in {"CALL_FUNCTION", "CALL_FUNCTION_KW"} :
            Entered(op) =>
                /\ Consumes(last.instr) <= Len(Before)
                /\ After.stack = SubSeq(Before, 1, Len(Before) - Consumes(last.instr)))
    /\ [][(status = "running" /\ status' = "running" /\ Len(frames') = Len(frames) - 1) =>
            /\ Len(frames'[Len(frames')].stack) = Len(frames[Len(frames')].stack) + 1
            /\ SubSeq(frames'[Len(frames')].stack, 1, Len(frames[Len(frames')].stack))
                  = frames[Len(frames')].stack]_vars
    /\ []((/\ status = "returned" /\ last.instr.opname = "<end>"
            /\ StraightLine(inv.code_obj.instructions)
            /\ NetEffect(inv.code_obj.instructions) = 0) => Before = <<>>)

\* a host callable was called with one argument over a value below: the
\* callable and the argument are replaced by the result
C19_Witness ==
    /\ Completed("CALL_FUNCTION") /\ last.instr.arg = 1 /\ Len(Before) = 3
    /\ After.stack = <<Before[1], IntV(2)>>

\* a unit without call instructions whose jumps all lead forward
ForwardOnly(code) ==
    \A i \in 1..Len(code.instructions) :
        LET instr == code.instructions[i]
        IN  /\ instr.opname \notin {"CALL_FUNCTION", "CALL_FUNCTION_KW"}
            /\ instr.opname \in {"POP_JUMP_IF_FALSE", "POP_JUMP_IF_TRUE"} => instr.arg > i - 1
            /\ instr.opname = "JUMP_FORWARD" => instr.arg >= 0

\* C20: the run of a unit without call instructions whose conditional jumps
\* all target an index greater than their own, and whose JUMP_FORWARD operands
\* are not negative, terminates: it returns a value, raises, or the pointer
\* passes the last instruction and the run yields None. Every step that does
\* not end the run moves the pointer up: JUMP_FORWARD k by k + 1, a taken
\* conditional jump to its target, every other instruction by 1.
C20_ForwardTerminates ==
    /\ (status = "running" /\ ForwardOnly(inv.code_obj)) ~> (status \in {"returned", "raised"})
    /\ [][(status = "running" /\ status' = "running" /\ ForwardOnly(inv.code_obj)) =>
            /\ Len(frames') = 1 /\ Len(frames) = 1
            /\ frames'[1].ip > frames[1].ip
            /\ Instr.opname = "JUMP_FORWARD" => frames'[1].ip = frames[1].ip + Instr.arg + 1
            /\ Instr.opname \in {"POP_JUMP_IF_FALSE", "POP_JUMP_IF_TRUE"} =>
                   frames'[1].ip \in {frames[1].ip + 1, Instr.arg}
            /\ Instr.opname \notin {"JUMP_FORWARD", "POP_JUMP_IF_FALSE", "POP_JUMP_IF_TRUE"} =>
                   frames'[1].ip = frames[1].ip + 1]_vars
    /\ []((ForwardOnly(inv.code_obj) /\ status = "returned" /\ last.instr.opname = "<end>") =>
            result = None)

\* JUMP_FORWARD 2 skipped to the fourth instruction, the run went on from
\* there and passed the last instruction, yielding None
C20_Witness ==
    /\ inv.code_obj = ForwardUnit(2, 1, 3)
    /\ status = "returned" /\ last.instr.opname = "<end>" /\ result = None
    /\ last.frame.ip = 6 /\ Before = <<IntV(7)>>
====
